---------------------------- MODULE Spec2Model ----------------------------
(***************************************************************************)
(* Model of the subtitle-to-prose pipeline of my-yt-dlp-server:           *)
(*   app/services/transcript_service.py  (TranscriptService)              *)
(*   app/routes/transcript.py            (POST /extract-transcript)       *)
(*   app/services/extractor.py           (AudioExtractor.extract)         *)
(*                                                                         *)
(* Text is modelled character by character: a Python str is a sequence of *)
(* characters, and a character is a one-letter TLA+ string.  Characters   *)
(* outside ASCII are written with a stand-in name:                        *)
(*   "MARU"  U+3002 ideographic full stop   "NOTE"  U+266A eighth note    *)
(*   "DE"    U+3067 hiragana de             "SU"    U+3059 hiragana su    *)
(*   "MA" U+307E  "SHI" U+3057  "TA" U+305F  "DA" U+3060  "TSU" U+3063     *)
(*   "AA" U+3042  "RU" U+308B (hiragana)    "KA"    U+30AB katakana ka     *)
(*   "ON"    U+97F3, "GAKU" U+697D (the two ideographs of "music")         *)
(*   "JBANG" U+FF01 fullwidth !             "JQUES" U+FF1F fullwidth ?     *)
(*   "BYO" U+79D2 (seconds)  "FUN" U+5206 (minutes)                        *)
(*   "JI" U+6642, "KAN" U+9593 (the two ideographs of "hours")             *)
(***************************************************************************)
EXTENDS Integers, Sequences, FiniteSets, TLC

VARIABLES
    \* --- one POST /extract-transcript request -------------------------
    pc,                 \* position of the request in handler / service
    temp_dir_files,     \* *.vtt directory listing of self.temp_dir, glob order
    video_info,         \* result of _get_video_info
    subtitle_files,     \* dict built by _find_subtitle_files (insertion order)
    selected_file,      \* locals of _parse_subtitle_file
    selected_type,
    selected_lang,
    content,            \* vtt_content.split('\n') of the file that was read
    text_content,       \* subtitle_data['text']
    result,             \* dict returned by TranscriptService.extract_transcript
    error,              \* exception propagating out of the service
    response,           \* what the route handler answers
    cleanup_scheduled,  \* background_tasks.add_task(cleanup_temp_files, ...)
    calls,              \* history: which service steps ran for this request
    \* --- _extract_text_from_vtt, statement by statement ----------------
    lines, i, scan_pc, text_lines, text_segments, body,
    iter_start,         \* history: i when the current outer iteration began
    max_read,           \* history: highest index at which lines[i] was read
    cue_starts,         \* history: indexes at which the outer loop opened a cue
    collected,          \* history: indexes whose cleaned text entered text_lines
    \* --- formatter functions applied to a text ------------------------
    text, text_pc, formatted, is_japanese,
    \* --- _clean_vtt_text applied to a raw line ------------------------
    raw_line, clean_pc, cleaned, recleaned,
    \* --- _format_duration ---------------------------------------------
    seconds, dur_pc, rendered,
    \* --- concurrent AudioExtractor.extract calls on one instance -------
    temp_dir,           \* self.temp_dir of the AudioExtractor
    ex_pc,              \* per call: the await it is suspended at
    ex_output_dir,      \* per call: the output_dir argument
    original_temp_dir,  \* per call: the local saved at line 187
    attempt             \* per call: the loop variable of line 180

reqVars == <<pc, temp_dir_files, video_info, subtitle_files, selected_file,
             selected_type, selected_lang, content, text_content, result, error,
             response,
             cleanup_scheduled, calls>>
scanVars == <<lines, i, scan_pc, text_lines, text_segments, body, iter_start,
              max_read, cue_starts, collected>>
textVars == <<text, text_pc, formatted, is_japanese>>
cleanVars == <<raw_line, clean_pc, cleaned, recleaned>>
durVars == <<seconds, dur_pc, rendered>>
exVars == <<temp_dir, ex_pc, ex_output_dir, original_temp_dir, attempt>>
vars == <<reqVars, scanVars, textVars, cleanVars, durVars, exVars>>

(***************************************************************************)
(* Bounds of the model.                                                    *)
(***************************************************************************)
MaxFiles == 4
MaxLines == 4
MaxPieces == 5
MaxRawPieces == 3
MaxSeconds == 7400
MaxCalls == 2

(***************************************************************************)
(* Python str primitives on character sequences.                           *)
(***************************************************************************)
None == <<"<None>">>

Whitespace == {" ", "\t", "\n"}

\* p occurs in s at position k (1-based)
MatchesAt(p, s, k) ==
    /\ k >= 1
    /\ k + Len(p) - 1 <= Len(s)
    /\ \A j \in 1..Len(p) : s[k + j - 1] = p[j]

\* Python: p in s
Contains(p, s) == \E k \in 1..(Len(s) + 1) : MatchesAt(p, s, k)

\* Python: s.startswith(p) / s.endswith(p)
StartsWith(s, p) == MatchesAt(p, s, 1)
EndsWith(s, p) == Len(p) <= Len(s) /\ MatchesAt(p, s, Len(s) - Len(p) + 1)

RECURSIVE LStrip(_)
LStrip(s) == IF s # <<>> /\ Head(s) \in Whitespace THEN LStrip(Tail(s)) ELSE s

RECURSIVE RStrip(_)
RStrip(s) ==
    IF s # <<>> /\ s[Len(s)] \in Whitespace
    THEN RStrip(SubSeq(s, 1, Len(s) - 1)) ELSE s

\* Python: s.strip()
Strip(s) == RStrip(LStrip(s))

\* Python: sep.join(parts)
RECURSIVE Join(_, _)
Join(parts, sep) ==
    IF parts = <<>> THEN <<>>
    ELSE IF Len(parts) = 1 THEN parts[1]
    ELSE parts[1] \o sep \o Join(Tail(parts), sep)

\* Python: re.split(r'[delims]', s): the pieces between delimiter characters
RECURSIVE ReSplit(_, _, _)
ReSplit(s, delims, cur) ==
    IF s = <<>> THEN <<cur>>
    ELSE IF Head(s) \in delims THEN <<cur>> \o ReSplit(Tail(s), delims, <<>>)
    ELSE ReSplit(Tail(s), delims, Append(cur, Head(s)))

\* Python: s.split(): maximal runs of non-whitespace characters
RECURSIVE SplitWords(_, _)
SplitWords(s, cur) ==
    IF s = <<>> THEN (IF cur = <<>> THEN <<>> ELSE <<cur>>)
    ELSE IF Head(s) \in Whitespace
         THEN (IF cur = <<>> THEN <<>> ELSE <<cur>>) \o SplitWords(Tail(s), <<>>)
         ELSE SplitWords(Tail(s), Append(cur, Head(s)))

\* Python: re.sub(r'\s+', ' ', s)
RECURSIVE CollapseWhitespace(_, _)
CollapseWhitespace(s, inRun) ==
    IF s = <<>> THEN <<>>
    ELSE IF Head(s) \in Whitespace
         THEN (IF inRun THEN <<>> ELSE <<" ">>) \o CollapseWhitespace(Tail(s), TRUE)
         ELSE <<Head(s)>> \o CollapseWhitespace(Tail(s), FALSE)

\* Python: c.upper() on the letters the model uses
Upper(c) ==
    CASE c = "a" -> "A"
      [] c = "b" -> "B"
      [] c = "i" -> "I"
      [] c = "d" -> "D"
      [] OTHER -> c

\* all sequences over S of length at most n
SeqsUpTo(S, n) == UNION {[1..k -> S] : k \in 0..n}

\* all sequences of distinct elements of S of length at most n
DistinctSeqsUpTo(S, n) ==
    {q \in SeqsUpTo(S, n) : \A a, b \in 1..Len(q) : a # b => q[a] # q[b]}

RECURSIVE Flatten(_)
Flatten(ss) == IF ss = <<>> THEN <<>> ELSE Head(ss) \o Flatten(Tail(ss))


(***************************************************************************)
(* Regular expressions of the service, as matchers on character sequences. *)
(* A matcher gives the index of the last character of the match that       *)
(* starts at k, or 0 when the expression does not match at k.              *)
(***************************************************************************)
Digit == {"0", "1", "2", "3", "4", "5", "6", "7", "8", "9"}

\* a fixed-length expression is a sequence of character classes
ClassesMatchAt(classes, s, k) ==
    /\ k >= 1
    /\ k + Len(classes) - 1 <= Len(s)
    /\ \A j \in 1..Len(classes) : s[k + j - 1] \in classes[j]

Literal(p) == [j \in 1..Len(p) |-> {p[j]}]

\* \d{2}:\d{2}:\d{2}\.\d{3}
TimestampClasses ==
    <<Digit, Digit, {":"}, Digit, Digit, {":"}, Digit, Digit, {"."},
      Digit, Digit, Digit>>

\* r'\d{2}:\d{2}:\d{2}\.\d{3} --> \d{2}:\d{2}:\d{2}\.\d{3}'
TimingClasses ==
    TimestampClasses \o Literal(<<" ", "-", "-", ">", " ">>) \o TimestampClasses

\* re.match(timing, line): the expression matches a prefix of the line
IsTimingLine(line) == ClassesMatchAt(TimingClasses, line, 1)

\* index of the first c in s at or after k, 0 when there is none
FirstIndexFrom(s, k, C) ==
    LET hits == {m \in k..Len(s) : s[m] \in C}
    IN  IF hits = {} THEN 0 ELSE CHOOSE m \in hits : \A n \in hits : m <= n

\* r'<[^>]+>'
TagEnd(s, k) ==
    IF k + 2 <= Len(s) /\ s[k] = "<" /\ s[k + 1] # ">"
    THEN FirstIndexFrom(s, k + 2, {">"}) ELSE 0

\* r'<\d{2}:\d{2}:\d{2}\.\d{3}>'
CueTimestampEnd(s, k) ==
    IF ClassesMatchAt(<<{"<"}>> \o TimestampClasses \o <<{">"}>>, s, k)
    THEN k + 13 ELSE 0

\* r'<c[^>]*>'
CTagEnd(s, k) ==
    IF k + 2 <= Len(s) /\ s[k] = "<" /\ s[k + 1] = "c"
    THEN FirstIndexFrom(s, k + 2, {">"}) ELSE 0

\* r'</c>'
CCloseEnd(s, k) ==
    IF MatchesAt(<<"<", "/", "c", ">">>, s, k) THEN k + 3 ELSE 0

\* r'NOTE.*?NOTE' (U+266A): up to the nearest later note, '.' is not a newline
MusicNoteEnd(s, k) ==
    IF k + 1 <= Len(s) /\ s[k] = "NOTE"
    THEN LET m == FirstIndexFrom(s, k + 1, {"NOTE", "\n"})
         IN  IF m # 0 /\ s[m] = "NOTE" THEN m ELSE 0
    ELSE 0

\* r'\[ON GAKU\]' (U+97F3 U+697D)
MusicJaEnd(s, k) ==
    IF MatchesAt(<<"[", "ON", "GAKU", "]">>, s, k) THEN k + 3 ELSE 0

\* r'\[Music\]'
MusicEnEnd(s, k) ==
    IF MatchesAt(<<"[", "M", "u", "s", "i", "c", "]">>, s, k) THEN k + 6 ELSE 0

\* the matcher of each expression _clean_vtt_text substitutes
MatchEnd(expr, s, k) ==
    CASE expr = "tag" -> TagEnd(s, k)
      [] expr = "cue_timestamp" -> CueTimestampEnd(s, k)
      [] expr = "c_tag" -> CTagEnd(s, k)
      [] expr = "c_close" -> CCloseEnd(s, k)
      [] expr = "music_note" -> MusicNoteEnd(s, k)
      [] expr = "music_ja" -> MusicJaEnd(s, k)
      [] expr = "music_en" -> MusicEnEnd(s, k)

\* re.sub(expr, '', s): remove the leftmost non-overlapping matches
RECURSIVE ReSubEmpty(_, _, _)
ReSubEmpty(expr, s, k) ==
    IF k > Len(s) THEN <<>>
    ELSE LET e == MatchEnd(expr, s, k)
         IN  IF e # 0 THEN ReSubEmpty(expr, s, e + 1)
             ELSE <<s[k]>> \o ReSubEmpty(expr, s, k + 1)

(***************************************************************************)
(* TranscriptService._clean_vtt_text                                       *)
(***************************************************************************)
Str_align == <<"a", "l", "i", "g", "n", ":">>
Str_position == <<"p", "o", "s", "i", "t", "i", "o", "n", ":">>

\* lines 224-232: the tag removals
StripTags(t) ==
    LET t1 == ReSubEmpty("tag", t, 1)
        t2 == ReSubEmpty("cue_timestamp", t1, 1)
        t3 == ReSubEmpty("c_tag", t2, 1)
    IN  ReSubEmpty("c_close", t3, 1)

\* lines 238-241: the music markers
StripMusic(t) ==
    LET t1 == ReSubEmpty("music_note", t, 1)
        t2 == ReSubEmpty("music_ja", t1, 1)
    IN  ReSubEmpty("music_en", t2, 1)

clean_vtt_text(t) ==
    LET tagless == StripTags(t)
    IN  IF Contains(Str_align, tagless) \/ Contains(Str_position, tagless)
        THEN <<>>
        ELSE Strip(StripMusic(tagless))


(***************************************************************************)
(* TranscriptService._is_japanese_text                                     *)
(***************************************************************************)
\* the model's characters in U+3040-309F, U+30A0-30FF, U+4E00-9FAF
JapaneseChars ==
    {"DE", "SU", "MA", "SHI", "TA", "DA", "TSU", "AA", "RU", "KA", "ON", "GAKU",
     "BYO", "FUN", "JI", "KAN"}

CountJapanese(t) == Cardinality({k \in 1..Len(t) : t[k] \in JapaneseChars})

\* fault variant of is_japanese_text: the threshold itself counts as reached
is_japanese_text_at_least(t) == 10 * CountJapanese(t) >= 3 * Len(t)

\* len(japanese_chars) > len(text) * 0.3
is_japanese_text(t) == 10 * CountJapanese(t) > 3 * Len(t)

(***************************************************************************)
(* TranscriptService._format_japanese_text                                 *)
(***************************************************************************)
JapaneseDelims == {"MARU", "JBANG", "JQUES"}

ParagraphSizeJa == 3

\* ['desu', 'masu', 'deshita', 'mashita', 'datta', 'dearu']
JapaneseEndings ==
    {<<"DE", "SU">>, <<"MA", "SU">>, <<"DE", "SHI", "TA">>,
     <<"MA", "SHI", "TA">>, <<"DA", "TSU", "TA">>, <<"DE", "AA", "RU">>}

\* any(ending in sentence for ending in [...])
HasEnding(sentence) == \E ending \in JapaneseEndings : Contains(ending, sentence)

\* lines 287-303: the current_paragraph lists, in the order they are flushed
RECURSIVE JapaneseGroups(_, _)
JapaneseGroups(sentences, current_paragraph) ==
    IF sentences = <<>>
    THEN (IF current_paragraph # <<>> THEN <<current_paragraph>> ELSE <<>>)
    ELSE LET sentence == Strip(Head(sentences))
             grown == Append(current_paragraph, sentence)
         IN  IF sentence = <<>>
             THEN JapaneseGroups(Tail(sentences), current_paragraph)
             ELSE IF Len(grown) >= ParagraphSizeJa \/ HasEnding(sentence)
                  THEN <<grown>> \o JapaneseGroups(Tail(sentences), <<>>)
                  ELSE JapaneseGroups(Tail(sentences), grown)

\* formatted_sentences of _format_japanese_text
JapaneseParagraphs(t) ==
    LET groups == JapaneseGroups(ReSplit(t, JapaneseDelims, <<>>), <<>>)
    IN  [g \in 1..Len(groups) |-> Join(groups[g], <<"MARU">>) \o <<"MARU">>]

format_japanese_text(t) == Join(JapaneseParagraphs(t), <<"\n">>)

(***************************************************************************)
(* TranscriptService._format_english_text                                  *)
(***************************************************************************)
EnglishDelims == {".", "!", "?"}

ParagraphSizeEn == 4

\* sentence[0].upper() + sentence[1:] if len(sentence) > 1 else sentence.upper()
Capitalize(sentence) ==
    IF Len(sentence) > 1
    THEN <<Upper(sentence[1])>> \o SubSeq(sentence, 2, Len(sentence))
    ELSE [k \in 1..Len(sentence) |-> Upper(sentence[k])]

\* fault variant of EnglishGroups: the trailing partial paragraph is not flushed
RECURSIVE EnglishGroups_no_flush(_, _)
EnglishGroups_no_flush(sentences, current_paragraph) ==
    IF sentences = <<>> THEN <<>>
    ELSE LET sentence == Strip(Head(sentences))
             grown == Append(current_paragraph, Capitalize(sentence))
         IN  IF sentence = <<>>
             THEN EnglishGroups_no_flush(Tail(sentences), current_paragraph)
             ELSE IF Len(grown) >= ParagraphSizeEn
                  THEN <<grown>> \o EnglishGroups_no_flush(Tail(sentences), <<>>)
                  ELSE EnglishGroups_no_flush(Tail(sentences), grown)

\* lines 313-330: the current_paragraph lists, in the order they are flushed
RECURSIVE EnglishGroups(_, _)
EnglishGroups(sentences, current_paragraph) ==
    IF sentences = <<>>
    THEN (IF current_paragraph # <<>> THEN <<current_paragraph>> ELSE <<>>)
    ELSE LET sentence == Strip(Head(sentences))
             grown == Append(current_paragraph, Capitalize(sentence))
         IN  IF sentence = <<>>
             THEN EnglishGroups(Tail(sentences), current_paragraph)
             ELSE IF Len(grown) >= ParagraphSizeEn
                  THEN <<grown>> \o EnglishGroups(Tail(sentences), <<>>)
                  ELSE EnglishGroups(Tail(sentences), grown)

\* formatted_sentences of _format_english_text
EnglishParagraphs(t) ==
    LET groups == EnglishGroups(ReSplit(t, EnglishDelims, <<>>), <<>>)
    IN  [g \in 1..Len(groups) |-> Join(groups[g], <<".", " ">>) \o <<".">>]

format_english_text(t) == Join(EnglishParagraphs(t), <<"\n", "\n">>)

(***************************************************************************)
(* TranscriptService._clean_and_format_text                                *)
(***************************************************************************)
\* fault variant of UniqueWords: repeated words are kept
UniqueWords_keep_all(words, prev_word) == words

\* lines 259-263: drop a word equal to the word before it
RECURSIVE UniqueWords(_, _)
UniqueWords(words, prev_word) ==
    IF words = <<>> THEN <<>>
    ELSE (IF Head(words) # prev_word THEN <<Head(words)>> ELSE <<>>)
         \o UniqueWords(Tail(words), Head(words))

\* lines 251-265: the text handed to the formatter
DedupedText(t) ==
    Join(UniqueWords(SplitWords(Strip(CollapseWhitespace(t, FALSE)), <<>>), None),
         <<" ">>)

clean_and_format_text(t) ==
    IF t = <<>> THEN <<>>
    ELSE IF is_japanese_text(DedupedText(t))
         THEN format_japanese_text(DedupedText(t))
         ELSE format_english_text(DedupedText(t))

(***************************************************************************)
(* TranscriptService._format_duration                                      *)
(***************************************************************************)
DigitChar(d) == <<"0", "1", "2", "3", "4", "5", "6", "7", "8", "9">>[d + 1]

\* f"{n}" for an int n >= 0: decimal digits, most significant first
RECURSIVE IntToStr(_)
IntToStr(n) ==
    IF n < 10 THEN <<DigitChar(n)>>
    ELSE Append(IntToStr(n \div 10), DigitChar(n % 10))

\* fault variant of format_duration: the minutes of the hours branch are not
\* reduced modulo the hour
format_duration_whole_minutes(secs) ==
    IF secs < 60
    THEN IntToStr(secs) \o <<"BYO">>
    ELSE IF secs < 3600
         THEN IntToStr(secs \div 60) \o <<"FUN">> \o IntToStr(secs % 60) \o <<"BYO">>
         ELSE IntToStr(secs \div 3600) \o <<"JI", "KAN">>
              \o IntToStr(secs \div 60) \o <<"FUN">>
              \o IntToStr(secs % 60) \o <<"BYO">>

format_duration(secs) ==
    IF secs < 60
    THEN IntToStr(secs) \o <<"BYO">>
    ELSE IF secs < 3600
         THEN LET minutes == secs \div 60
                  remaining_seconds == secs % 60
              IN  IntToStr(minutes) \o <<"FUN">>
                  \o IntToStr(remaining_seconds) \o <<"BYO">>
         ELSE LET hours == secs \div 3600
                  minutes == (secs % 3600) \div 60
                  remaining_seconds == secs % 60
              IN  IntToStr(hours) \o <<"JI", "KAN">>
                  \o IntToStr(minutes) \o <<"FUN">>
                  \o IntToStr(remaining_seconds) \o <<"BYO">>


(***************************************************************************)
(* TranscriptService._extract_text_from_vtt: the cue scan.                 *)
(* st = [lines, i, pc, text_lines, text_segments]; i is the 0-based line   *)
(* index of the source, pc the position in the two nested while loops.     *)
(***************************************************************************)
Str_WEBVTT == <<"W", "E", "B", "V", "T", "T">>
Str_Kind == <<"K", "i", "n", "d", ":">>
Str_Language == <<"L", "a", "n", "g", "u", "a", "g", "e", ":">>

\* line 182
IsHeaderLine(line) ==
    \/ StartsWith(line, Str_WEBVTT)
    \/ StartsWith(line, Str_Kind)
    \/ StartsWith(line, Str_Language)

\* lines[i].strip()
CurrentLine(st) == Strip(st.lines[st.i + 1])

\* lines 178-188 and 212: one test of the outer loop and the line it reads
OuterStep(st) ==
    IF st.i >= Len(st.lines) THEN [st EXCEPT !.pc = "join"]
    ELSE IF IsHeaderLine(CurrentLine(st)) THEN [st EXCEPT !.i = st.i + 1]
    ELSE IF IsTimingLine(CurrentLine(st))
         THEN [st EXCEPT !.i = st.i + 1, !.text_lines = <<>>, !.pc = "inner"]
         ELSE [st EXCEPT !.i = st.i + 1]

\* fault variant of InnerStep: the step back at the next timing line is two
\* lines instead of one
InnerStep_step_back_two(st) ==
    IF st.i >= Len(st.lines) THEN [st EXCEPT !.pc = "cue_end"]
    ELSE IF CurrentLine(st) = <<>> THEN [st EXCEPT !.pc = "cue_end"]
    ELSE IF IsTimingLine(CurrentLine(st))
         THEN [st EXCEPT !.i = st.i - 2, !.pc = "cue_end"]
         ELSE LET clean_text == clean_vtt_text(CurrentLine(st))
              IN  [st EXCEPT !.i = st.i + 1,
                             !.text_lines = IF clean_text # <<>>
                                            THEN Append(st.text_lines, clean_text)
                                            ELSE st.text_lines]

\* fault variant of InnerStep: no step back at the next timing line
InnerStep_no_step_back(st) ==
    IF st.i >= Len(st.lines) THEN [st EXCEPT !.pc = "cue_end"]
    ELSE IF CurrentLine(st) = <<>> THEN [st EXCEPT !.pc = "cue_end"]
    ELSE IF IsTimingLine(CurrentLine(st)) THEN [st EXCEPT !.pc = "cue_end"]
         ELSE LET clean_text == clean_vtt_text(CurrentLine(st))
              IN  [st EXCEPT !.i = st.i + 1,
                             !.text_lines = IF clean_text # <<>>
                                            THEN Append(st.text_lines, clean_text)
                                            ELSE st.text_lines]

\* lines 191-204: one test of the inner loop and the line it reads
InnerStep(st) ==
    IF st.i >= Len(st.lines) THEN [st EXCEPT !.pc = "cue_end"]
    ELSE IF CurrentLine(st) = <<>> THEN [st EXCEPT !.pc = "cue_end"]
    ELSE IF IsTimingLine(CurrentLine(st))
         THEN [st EXCEPT !.i = st.i - 1, !.pc = "cue_end"]
         ELSE LET clean_text == clean_vtt_text(CurrentLine(st))
              IN  [st EXCEPT !.i = st.i + 1,
                             !.text_lines = IF clean_text # <<>>
                                            THEN Append(st.text_lines, clean_text)
                                            ELSE st.text_lines]

\* fault variant of CueEndStep: the segment is appended even when the cue
\* collected no text
CueEndStep_append_always(st) ==
    [st EXCEPT !.i = st.i + 1,
               !.pc = "outer",
               !.text_segments = Append(st.text_segments,
                                        Join(st.text_lines, <<" ">>))]

\* lines 207-212: the segment of the cue, then the outer loop's i += 1
CueEndStep(st) ==
    LET segment_text == Join(st.text_lines, <<" ">>)
    IN  [st EXCEPT !.i = st.i + 1,
                   !.pc = "outer",
                   !.text_segments = IF st.text_lines # <<>> /\ segment_text # <<>>
                                     THEN Append(st.text_segments, segment_text)
                                     ELSE st.text_segments]

ScanStep(st) ==
    CASE st.pc = "outer" -> OuterStep(st)
      [] st.pc = "inner" -> InnerStep(st)
      [] st.pc = "cue_end" -> CueEndStep(st)
      [] OTHER -> st

\* lines 174-177
ScanStart(ls) ==
    [lines |-> ls, i |-> 0, pc |-> "outer", text_lines |-> <<>>,
     text_segments |-> <<>>]

RECURSIVE RunScan(_)
RunScan(st) == IF st.pc = "join" THEN st ELSE RunScan(ScanStep(st))

\* lines 217-220, from the segments
JoinAndFormat(segments) == clean_and_format_text(Join(segments, <<" ">>))

\* the whole function, on vtt_content.split('\n')
extract_text_from_vtt(ls) == JoinAndFormat(RunScan(ScanStart(ls)).text_segments)

(***************************************************************************)
(* TranscriptService._find_subtitle_files and _parse_subtitle_file         *)
(* A dict is a sequence of [key, value] entries in insertion order.        *)
(***************************************************************************)
manual_ja == <<"m", "a", "n", "u", "a", "l", "_", "j", "a">>
auto_ja == <<"a", "u", "t", "o", "_", "j", "a">>
manual_en == <<"m", "a", "n", "u", "a", "l", "_", "e", "n">>
auto_en == <<"a", "u", "t", "o", "_", "e", "n">>

DictHas(d, k) == \E n \in 1..Len(d) : d[n].key = k
DictGet(d, k) == d[CHOOSE n \in 1..Len(d) : d[n].key = k].value
DictSet(d, k, v) ==
    IF DictHas(d, k)
    THEN [n \in 1..Len(d) |-> IF d[n].key = k THEN [key |-> k, value |-> v] ELSE d[n]]
    ELSE Append(d, [key |-> k, value |-> v])
DictKeys(d) == {d[n].key : n \in 1..Len(d)}

\* Path(self.temp_dir).glob("*.vtt") on a directory listing
GlobVtt(listing) ==
    SelectSeq(listing, LAMBDA name : EndsWith(name, <<".", "v", "t", "t">>))

\* lines 120-128: the key a file name is stored under, None for no key
FileKey(file_name) ==
    IF Contains(<<".", "j", "a", ".", "v", "t", "t">>, file_name) THEN manual_ja
    ELSE IF Contains(<<".", "e", "n", ".", "v", "t", "t">>, file_name) THEN manual_en
    ELSE IF Contains(<<".", "j", "a", ".", "a", "u", "t", "o", ".", "v", "t", "t">>,
                     file_name) THEN auto_ja
    ELSE IF Contains(<<".", "e", "n", ".", "a", "u", "t", "o", ".", "v", "t", "t">>,
                     file_name) THEN auto_en
    ELSE None

\* lines 113-128: the loop over the globbed files
RECURSIVE CollectSubtitleFiles(_, _)
CollectSubtitleFiles(files, d) ==
    IF files = <<>> THEN d
    ELSE CollectSubtitleFiles(Tail(files),
            IF FileKey(Head(files)) = None THEN d
            ELSE DictSet(d, FileKey(Head(files)), Head(files)))

\* fault variant of find_subtitle_files: the empty dict is returned instead
\* of raising
find_subtitle_files_no_raise(listing) ==
    [raised |-> "none", value |-> CollectSubtitleFiles(GlobVtt(listing), <<>>)]

\* lines 111-134: the dict, or the exception of line 131
find_subtitle_files(listing) ==
    LET d == CollectSubtitleFiles(GlobVtt(listing), <<>>)
    IN  IF d = <<>> THEN [raised |-> "FileNotFoundError", value |-> <<>>]
        ELSE [raised |-> "none", value |-> d]

\* line 139
priority_order == <<manual_ja, auto_ja, manual_en, auto_en>>

Str_manual == <<"m", "a", "n", "u", "a", "l">>
Str_auto == <<"a", "u", "t", "o">>
\* the two language labels: U+65E5 U+672C U+8A9E and U+82F1 U+8A9E
Label_ja == <<"NICHI", "HON", "GO">>
Label_en == <<"EI", "GO">>

\* lines 145-150: the first key of priority_order present in the dict
RECURSIVE SelectFrom(_, _)
SelectFrom(order, d) ==
    IF order = <<>>
    THEN [file |-> None, type |-> None, lang |-> None]
    ELSE IF DictHas(d, Head(order))
         THEN [file |-> DictGet(d, Head(order)),
               type |-> IF Contains(Str_manual, Head(order)) THEN Str_manual
                        ELSE Str_auto,
               lang |-> IF Contains(<<"j", "a">>, Head(order)) THEN Label_ja
                        ELSE Label_en]
         ELSE SelectFrom(Tail(order), d)

\* fault variant of select_variant: the first key of the dict in insertion
\* order is taken instead of the first key of priority_order
select_variant_by_insertion(d) ==
    IF d = <<>> THEN SelectFrom(<<>>, d) ELSE SelectFrom(<<d[1].key>>, d)

\* fault variant of select_variant: the kind is read off the selected path
\* instead of the selected key
select_variant_kind_from_path(d) ==
    LET sel == SelectFrom(priority_order, d)
    IN  [sel EXCEPT !.type = IF Contains(Str_manual, sel.file) THEN Str_manual
                             ELSE Str_auto]

\* lines 139-153
select_variant(d) == SelectFrom(priority_order, d)


(***************************************************************************)
(* Inputs.                                                                 *)
(***************************************************************************)
Line_Timing1 ==
    <<"0", "0", ":", "0", "0", ":", "0", "1", ".", "0", "0", "0", " ", "-",
    "-", ">", " ", "0", "0", ":", "0", "0", ":", "0", "2", ".", "0", "0",
    "0">>
Line_Timing2 ==
    <<"0", "0", ":", "0", "0", ":", "0", "2", ".", "0", "0", "0", " ", "-",
    "-", ">", " ", "0", "0", ":", "0", "0", ":", "0", "4", ".", "0", "0",
    "0">>
Line_BadTiming ==
    <<"0", ":", "0", "1", " ", "-", "-", ">", " ", "0", ":", "0", "2">>
Line_Dark1 ==
    <<"i", "t", " ", "w", "a", "s", " ", "a", " ", "d", "a", "r", "k">>
Line_Dark2 ==
    <<"d", "a", "r", "k", " ", "a", "n", "d", " ", "s", "t", "o", "r", "m",
    "y", " ", "n", "i", "g", "h", "t">>
Line_Text == <<"a">>
Line_Text2 == <<"b">>
Line_Spaces == <<" ", " ">>
Line_TagOnly == <<"<", "c", ">">>
Line_Blank == <<>>

\* scenario A: two consecutive cues whose texts overlap in the word "dark"
Vtt_ScenarioA ==
    <<Str_WEBVTT, Line_Blank, Line_Timing1, Line_Dark1, Line_Blank,
      Line_Timing2, Line_Dark2, Line_Blank>>
\* ''.split('\n') = ['']
Vtt_Empty == <<Line_Blank>>
Vtt_HeaderOnly == <<Str_WEBVTT, Line_Blank>>
Vtt_OneCue == <<Str_WEBVTT, Line_Blank, Line_Timing1, Line_Text, Line_Blank>>
Vtt_TagsOnly == <<Str_WEBVTT, Line_Blank, Line_Timing1, Line_TagOnly, Line_Blank>>

VttPool == {Vtt_ScenarioA, Vtt_Empty, Vtt_HeaderOnly, Vtt_OneCue, Vtt_TagsOnly}

\* cues that follow each other, text or timing line, with no blank line
Vtt_NoBlankSeparators ==
    <<Str_WEBVTT, Line_Timing1, Line_Text, Line_Timing2, Line_Timing1,
      Line_Text2, Line_Timing2, Line_Dark1>>
\* a block with a malformed timing line between two well-formed cues
Vtt_MalformedBlock ==
    <<Str_WEBVTT, Line_Blank, Line_Timing1, Line_Text, Line_Blank,
      Line_BadTiming, Line_Text2, Line_Blank, Line_Timing2, Line_Dark1,
      Line_Blank>>
\* the same, the malformed block following the first cue's text directly
Vtt_MalformedNoBlank ==
    <<Str_WEBVTT, Line_Blank, Line_Timing1, Line_Text, Line_BadTiming,
      Line_Text2, Line_Blank, Line_Timing2, Line_Dark1, Line_Blank>>
\* text after a whitespace-only line, and a cue with nothing left after cleaning
Vtt_AfterBlank ==
    <<Line_Timing1, Line_Text, Line_Spaces, Line_Text2, Line_TagOnly,
      Line_Timing2, Line_TagOnly, Line_Blank, Line_Text2>>

VttScenarios ==
    {Vtt_NoBlankSeparators, Vtt_MalformedBlock, Vtt_MalformedNoBlank,
     Vtt_AfterBlank}

LinePool ==
    {Str_WEBVTT, Line_Blank, Line_Timing1, Line_BadTiming, Line_Text, Line_Text2,
     Line_TagOnly}

\* vtt_content.split('\n') is never the empty list
VttInputs ==
    (SeqsUpTo(LinePool, MaxLines) \ {<<>>}) \cup VttPool \cup VttScenarios

File_ja == <<"t", ".", "j", "a", ".", "v", "t", "t">>
File_en == <<"t", ".", "e", "n", ".", "v", "t", "t">>
File_ja_auto ==
    <<"t", ".", "j", "a", ".", "a", "u", "t", "o", ".", "v", "t", "t">>
File_en_auto ==
    <<"t", ".", "e", "n", ".", "a", "u", "t", "o", ".", "v", "t", "t">>
File_fr == <<"t", ".", "f", "r", ".", "v", "t", "t">>
File_srt == <<"t", ".", "e", "n", ".", "s", "r", "t">>

FilePool == {File_ja, File_en, File_ja_auto, File_en_auto, File_fr, File_srt}

Listings == DistinctSeqsUpTo(FilePool, MaxFiles)

Durations == {0, 65, 3661}

Title == <<"T">>
Url == <<"u">>

TextPieces ==
    {<<"a", ".">>, <<"b", " ">>, <<" ">>, <<"DE", "SU", "MARU">>, <<"KA", "MARU">>,
     <<"DE", "SU">>}

TextInputs == {Flatten(q) : q \in SeqsUpTo(TextPieces, MaxPieces)}

RawPieces ==
    {<<"a">>, <<" ">>, <<"<">>, <<">">>, <<"NOTE">>,
     <<"[", "M", "u", "s", "i", "c", "]">>, <<"[", "ON">>, <<"GAKU", "]">>,
     Str_align}

RawInputs == {Flatten(q) : q \in SeqsUpTo(RawPieces, MaxRawPieces)}


(***************************************************************************)
(* TranscriptService._format_transcript and the exception classes.         *)
(***************************************************************************)
\* U+81EA U+52D5 U+751F U+6210 ("auto-generated") and U+624B U+52D5 ("manual")
TypeLabel_auto == <<"JI_SELF", "DOU", "SEI", "NARU">>
TypeLabel_manual == <<"SHU", "DOU">>

\* lines 334-351: the fields substituted into the fixed template
format_transcript(info, subtitle_data, url) ==
    [title |-> info.title,
     url |-> url,
     language |-> subtitle_data.language,
     subtitle_type |-> IF subtitle_data.type = Str_auto THEN TypeLabel_auto
                       ELSE TypeLabel_manual,
     duration |-> format_duration(info.duration),
     content |-> subtitle_data.text]

\* json.JSONDecodeError and UnicodeDecodeError are subclasses of ValueError
IsValueError(e) == e \in {"ValueError", "JSONDecodeError", "UnicodeDecodeError"}

\* routes/transcript.py lines 61-77: the except clauses, in order
StatusOf(e) ==
    IF IsValueError(e) THEN 400
    ELSE IF e = "FileNotFoundError" THEN 404
    ELSE 500

\* what _get_video_info can raise: the tool cannot be launched, it exits
\* non-zero, its output is not UTF-8, its output is not JSON
InfoErrors == {"FileNotFoundError", "Exception", "UnicodeDecodeError", "JSONDecodeError"}
\* what _download_subtitles can raise before it looks for files
DownloadErrors == {"FileNotFoundError", "UnicodeDecodeError"}
\* what open(...).read() can raise on the selected file
ReadErrors == {"UnicodeDecodeError"}

(***************************************************************************)
(* One POST /extract-transcript request.                                   *)
(***************************************************************************)
ReqInit ==
    /\ pc = "get_video_info"
    /\ temp_dir_files = <<>>
    /\ video_info = None
    /\ subtitle_files = <<>>
    /\ selected_file = None
    /\ selected_type = None
    /\ selected_lang = None
    /\ content = None
    /\ text_content = None
    /\ result = None
    /\ error = "none"
    /\ response = [status |-> 0]
    /\ cleanup_scheduled = FALSE
    /\ calls = {}

ReqIdle ==
    /\ pc = "idle"
    /\ temp_dir_files = <<>>
    /\ video_info = None
    /\ subtitle_files = <<>>
    /\ selected_file = None
    /\ selected_type = None
    /\ selected_lang = None
    /\ content = None
    /\ text_content = None
    /\ result = None
    /\ error = "none"
    /\ response = [status |-> 0]
    /\ cleanup_scheduled = FALSE
    /\ calls = {}

ScanHistoryInit ==
    /\ iter_start = 0
    /\ max_read = -1
    /\ cue_starts = <<>>
    /\ collected = <<>>

ScanIdle ==
    /\ lines = <<>>
    /\ i = 0
    /\ scan_pc = "idle"
    /\ text_lines = <<>>
    /\ text_segments = <<>>
    /\ body = None
    /\ ScanHistoryInit

TextIdle ==
    text = <<>> /\ text_pc = "idle" /\ formatted = None /\ is_japanese = FALSE

CleanIdle == raw_line = <<>> /\ clean_pc = "idle" /\ cleaned = None /\ recleaned = None

DurIdle == seconds = 0 /\ dur_pc = "idle" /\ rendered = None

\* the extract calls of one AudioExtractor instance
ExtractCalls == 1..MaxCalls

\* extractor.py line 18
Dir_temp == <<"t", "e", "m", "p">>

\* no extract call is made: the extractor as its constructor left it
ExIdle ==
    /\ temp_dir = Dir_temp
    /\ ex_pc = [c \in ExtractCalls |-> "idle"]
    /\ ex_output_dir = [c \in ExtractCalls |-> None]
    /\ original_temp_dir = [c \in ExtractCalls |-> None]
    /\ attempt = [c \in ExtractCalls |-> 0]

Raise(e) == error' = e /\ pc' = "except"

\* transcript_service.py lines 50-72: the metadata was fetched and decoded
GetVideoInfoOk ==
    /\ pc = "get_video_info"
    /\ \E d \in Durations : video_info' = [title |-> Title, duration |-> d]
    /\ pc' = "download_subtitles"
    /\ calls' = calls \cup {"_get_video_info"}
    /\ UNCHANGED <<content, temp_dir_files, subtitle_files, selected_file, selected_type,
                   selected_lang, text_content, result, error, response,
                   cleanup_scheduled>>
    /\ UNCHANGED <<scanVars, textVars, cleanVars, durVars, exVars>>

\* lines 59-76: _get_video_info raises
GetVideoInfoFails ==
    /\ pc = "get_video_info"
    /\ \E e \in InfoErrors : Raise(e)
    /\ calls' = calls \cup {"_get_video_info"}
    /\ UNCHANGED <<content, temp_dir_files, video_info, subtitle_files, selected_file,
                   selected_type, selected_lang, text_content, result, response,
                   cleanup_scheduled>>
    /\ UNCHANGED <<scanVars, textVars, cleanVars, durVars, exVars>>

\* lines 78-109: the tool could not be launched or its stderr not decoded
DownloadSubtitlesFails ==
    /\ pc = "download_subtitles"
    /\ \E e \in DownloadErrors : Raise(e)
    /\ calls' = calls \cup {"_download_subtitles"}
    /\ UNCHANGED <<content, temp_dir_files, video_info, subtitle_files, selected_file,
                   selected_type, selected_lang, text_content, result, response,
                   cleanup_scheduled>>
    /\ UNCHANGED <<scanVars, textVars, cleanVars, durVars, exVars>>

\* lines 78-105 and 111-134: the tool ran and left a directory listing;
\* _find_subtitle_files builds the dict or raises
DownloadSubtitles ==
    /\ pc = "download_subtitles"
    /\ \E listing \in Listings :
         /\ temp_dir_files' = listing
         /\ LET found == find_subtitle_files(listing)
            IN  IF found.raised # "none"
                THEN Raise(found.raised) /\ UNCHANGED subtitle_files
                ELSE /\ subtitle_files' = found.value
                     /\ pc' = "parse_subtitle_file"
                     /\ UNCHANGED error
    /\ calls' = calls \cup {"_download_subtitles", "_find_subtitle_files"}
    /\ UNCHANGED <<content, video_info, selected_file, selected_type, selected_lang,
                   text_content, result, response, cleanup_scheduled>>
    /\ UNCHANGED <<scanVars, textVars, cleanVars, durVars, exVars>>

\* lines 136-155: variant selection
SelectVariant ==
    /\ pc = "parse_subtitle_file"
    /\ LET sel == select_variant(subtitle_files)
       IN  /\ selected_file' = sel.file
           /\ selected_type' = sel.type
           /\ selected_lang' = sel.lang
           /\ IF sel.file = None
              THEN Raise("FileNotFoundError")
              ELSE pc' = "read_file" /\ UNCHANGED error
    /\ calls' = calls \cup {"select"}
    /\ UNCHANGED <<content, temp_dir_files, video_info, subtitle_files, text_content,
                   result, response, cleanup_scheduled>>
    /\ UNCHANGED <<scanVars, textVars, cleanVars, durVars, exVars>>

\* lines 157-170: the selected file is read and its cues are parsed
ReadAndExtract ==
    /\ pc = "read_file"
    /\ \E read \in VttPool :
         /\ content' = read
         /\ text_content' = extract_text_from_vtt(read)
    /\ pc' = "format_transcript"
    /\ calls' = calls \cup {"read", "_extract_text_from_vtt"}
    /\ UNCHANGED <<temp_dir_files, video_info, subtitle_files, selected_file,
                   selected_type, selected_lang, result, error, response,
                   cleanup_scheduled>>
    /\ UNCHANGED <<scanVars, textVars, cleanVars, durVars, exVars>>

\* lines 158-159: reading the selected file raises
ReadFails ==
    /\ pc = "read_file"
    /\ \E e \in ReadErrors : Raise(e)
    /\ calls' = calls \cup {"read"}
    /\ UNCHANGED <<content, temp_dir_files, video_info, subtitle_files, selected_file,
                   selected_type, selected_lang, text_content, result, response,
                   cleanup_scheduled>>
    /\ UNCHANGED <<scanVars, textVars, cleanVars, durVars, exVars>>

\* lines 31-44: the service formats the document and returns its dict
ServiceReturn ==
    /\ pc = "format_transcript"
    /\ LET subtitle_data == [text |-> text_content, language |-> selected_lang,
                             type |-> selected_type]
       IN  result' = [title |-> video_info.title,
                      duration |-> format_duration(video_info.duration),
                      language |-> subtitle_data.language,
                      subtitle_type |-> subtitle_data.type,
                      formatted_transcript |->
                          format_transcript(video_info, subtitle_data, Url)]
    /\ pc' = "returned"
    /\ UNCHANGED <<content, temp_dir_files, video_info, subtitle_files, selected_file,
                   selected_type, selected_lang, text_content, error, response,
                   cleanup_scheduled, calls>>
    /\ UNCHANGED <<scanVars, textVars, cleanVars, durVars, exVars>>

\* routes/transcript.py lines 44-59: schedule the cleanup, answer 200
HandlerSuccess ==
    /\ pc = "returned"
    /\ cleanup_scheduled' = TRUE
    /\ response' = [status |-> 200,
                    transcript |-> result.formatted_transcript,
                    title |-> result.title,
                    url |-> Url,
                    language |-> result.language,
                    duration |-> result.duration,
                    subtitle_type |-> result.subtitle_type]
    /\ pc' = "done"
    /\ UNCHANGED <<content, temp_dir_files, video_info, subtitle_files, selected_file,
                   selected_type, selected_lang, text_content, result, error,
                   calls>>
    /\ UNCHANGED <<scanVars, textVars, cleanVars, durVars, exVars>>

\* routes/transcript.py lines 61-77: an exception becomes an HTTP error
HandlerExcept ==
    /\ pc = "except"
    /\ response' = [status |-> StatusOf(error)]
    /\ pc' = "done"
    /\ UNCHANGED <<content, temp_dir_files, video_info, subtitle_files, selected_file,
                   selected_type, selected_lang, text_content, result, error,
                   cleanup_scheduled, calls>>
    /\ UNCHANGED <<scanVars, textVars, cleanVars, durVars, exVars>>

Init == ReqInit /\ ScanIdle /\ TextIdle /\ CleanIdle /\ DurIdle /\ ExIdle

Next ==
    \/ GetVideoInfoOk
    \/ GetVideoInfoFails
    \/ DownloadSubtitlesFails
    \/ DownloadSubtitles
    \/ SelectVariant
    \/ ReadAndExtract
    \/ ReadFails
    \/ ServiceReturn
    \/ HandlerSuccess
    \/ HandlerExcept

Spec == Init /\ [][Next]_vars


(***************************************************************************)
(* _extract_text_from_vtt run on its own, one loop test per step.          *)
(***************************************************************************)
ScanState ==
    [lines |-> lines, i |-> i, pc |-> scan_pc, text_lines |-> text_lines,
     text_segments |-> text_segments]

SetScan(st) ==
    /\ lines' = st.lines
    /\ i' = st.i
    /\ scan_pc' = st.pc
    /\ text_lines' = st.text_lines
    /\ text_segments' = st.text_segments

VttInit ==
    /\ \E ls \in VttInputs :
         /\ lines = ScanStart(ls).lines
         /\ i = ScanStart(ls).i
         /\ scan_pc = ScanStart(ls).pc
         /\ text_lines = ScanStart(ls).text_lines
         /\ text_segments = ScanStart(ls).text_segments
    /\ body = None
    /\ ScanHistoryInit
    /\ ReqIdle /\ TextIdle /\ CleanIdle /\ DurIdle /\ ExIdle

\* the step reads lines[i] when the loop test i < len(lines) passes
ReadsLine == i < Len(lines)

RecordRead == max_read' = IF ReadsLine /\ i > max_read THEN i ELSE max_read

\* lines 178-188, 212
OuterLoop ==
    /\ scan_pc = "outer"
    /\ SetScan(OuterStep(ScanState))
    /\ RecordRead
    /\ iter_start' = IF ReadsLine THEN i ELSE iter_start
    /\ cue_starts' = IF OuterStep(ScanState).pc = "inner"
                      THEN Append(cue_starts, i) ELSE cue_starts
    /\ UNCHANGED <<collected, body, reqVars, textVars, cleanVars, durVars, exVars>>

\* lines 191-204
InnerLoop ==
    /\ scan_pc = "inner"
    /\ SetScan(InnerStep(ScanState))
    /\ RecordRead
    /\ collected' = IF Len(InnerStep(ScanState).text_lines) > Len(text_lines)
                     THEN Append(collected, i) ELSE collected
    /\ UNCHANGED <<iter_start, cue_starts, body, reqVars, textVars, cleanVars,
                   durVars, exVars>>

\* lines 207-212
CueEnd ==
    /\ scan_pc = "cue_end"
    /\ SetScan(CueEndStep(ScanState))
    /\ UNCHANGED <<iter_start, max_read, cue_starts, collected, body, reqVars,
                   textVars, cleanVars, durVars, exVars>>

\* lines 214-220
ScanFinish ==
    /\ scan_pc = "join"
    /\ body' = JoinAndFormat(text_segments)
    /\ scan_pc' = "done"
    /\ UNCHANGED <<lines, i, text_lines, text_segments, iter_start, max_read,
                   cue_starts, collected>>
    /\ UNCHANGED <<reqVars, textVars, cleanVars, durVars, exVars>>

VttNext == OuterLoop \/ InnerLoop \/ CueEnd \/ ScanFinish

SpecVtt == VttInit /\ [][VttNext]_vars

(***************************************************************************)
(* The text functions applied to a text.                                   *)
(***************************************************************************)
TextInit ==
    /\ text \in TextInputs
    /\ text_pc = "start"
    /\ formatted = None
    /\ is_japanese = FALSE
    /\ ReqIdle /\ ScanIdle /\ CleanIdle /\ DurIdle /\ ExIdle

\* _clean_and_format_text(text)
CleanAndFormat ==
    /\ text_pc = "start"
    /\ formatted' = clean_and_format_text(text)
    /\ text_pc' = "clean_and_format"
    /\ UNCHANGED <<text, is_japanese, reqVars, scanVars, cleanVars, durVars, exVars>>

\* _format_english_text(text)
FormatEnglish ==
    /\ text_pc = "start"
    /\ formatted' = format_english_text(text)
    /\ text_pc' = "english"
    /\ UNCHANGED <<text, is_japanese, reqVars, scanVars, cleanVars, durVars, exVars>>

\* _format_japanese_text(text)
FormatJapanese ==
    /\ text_pc = "start"
    /\ formatted' = format_japanese_text(text)
    /\ text_pc' = "japanese"
    /\ UNCHANGED <<text, is_japanese, reqVars, scanVars, cleanVars, durVars, exVars>>

\* _is_japanese_text(text)
DetectScript ==
    /\ text_pc = "start"
    /\ is_japanese' = is_japanese_text(text)
    /\ text_pc' = "detect"
    /\ UNCHANGED <<text, formatted, reqVars, scanVars, cleanVars, durVars, exVars>>

TextNext == CleanAndFormat \/ FormatEnglish \/ FormatJapanese \/ DetectScript

SpecText == TextInit /\ [][TextNext]_vars

(***************************************************************************)
(* _clean_vtt_text applied to a raw line, and again to its own result.     *)
(***************************************************************************)
CleanInit ==
    /\ raw_line \in RawInputs
    /\ clean_pc = "start"
    /\ cleaned = None
    /\ recleaned = None
    /\ ReqIdle /\ ScanIdle /\ TextIdle /\ DurIdle /\ ExIdle

CleanLine ==
    /\ clean_pc = "start"
    /\ cleaned' = clean_vtt_text(raw_line)
    /\ clean_pc' = "cleaned"
    /\ UNCHANGED <<raw_line, recleaned, reqVars, scanVars, textVars, durVars, exVars>>

CleanAgain ==
    /\ clean_pc = "cleaned"
    /\ recleaned' = clean_vtt_text(cleaned)
    /\ clean_pc' = "recleaned"
    /\ UNCHANGED <<raw_line, cleaned, reqVars, scanVars, textVars, durVars, exVars>>

CleanNext == CleanLine \/ CleanAgain

SpecClean == CleanInit /\ [][CleanNext]_vars

(***************************************************************************)
(* _format_duration applied to a number of seconds.                        *)
(***************************************************************************)
DurInit ==
    /\ seconds \in 0..MaxSeconds
    /\ dur_pc = "start"
    /\ rendered = None
    /\ ReqIdle /\ ScanIdle /\ TextIdle /\ CleanIdle /\ ExIdle

FormatDuration ==
    /\ dur_pc = "start"
    /\ rendered' = format_duration(seconds)
    /\ dur_pc' = "done"
    /\ UNCHANGED <<seconds, reqVars, scanVars, textVars, cleanVars, exVars>>

DurNext == FormatDuration

SpecDuration == DurInit /\ [][DurNext]_vars

(***************************************************************************)
(* services/extractor.py: AudioExtractor.extract, called concurrently on   *)
(* one instance.  extract is a coroutine: calls interleave at its awaits   *)
(* and nowhere else, so an action is the code from one await to the next.  *)
(***************************************************************************)
\* extractor.py line 177
retry_count == 3

\* the directory a caller passes as output_dir
OutputDirOf(c) == <<"o", "u", "t", DigitChar(c)>>

\* Python truthiness of the output_dir argument
Truthy(dir) == dir # None /\ dir # <<>>

ExInit ==
    /\ ExIdle
    /\ ReqIdle /\ ScanIdle /\ TextIdle /\ CleanIdle /\ DurIdle

ExUnchangedOthers == UNCHANGED <<reqVars, scanVars, textVars, cleanVars, durVars>>

\* lines 230-233: the finally block of the inner try
Restored(c) ==
    IF Truthy(ex_output_dir[c]) THEN original_temp_dir[c] ELSE temp_dir

\* lines 235-243: the except clause, retry or give up
AfterFailure(c) ==
    IF attempt[c] < retry_count - 1 THEN "sleep" ELSE "raised"

\* lines 175-182: the call, up to the await of _get_video_info
ExtractCall(c) ==
    /\ ex_pc[c] = "idle"
    /\ \E dir \in {None, OutputDirOf(c)} :
         ex_output_dir' = [ex_output_dir EXCEPT ![c] = dir]
    /\ attempt' = [attempt EXCEPT ![c] = 0]
    /\ ex_pc' = [ex_pc EXCEPT ![c] = "get_video_info"]
    /\ UNCHANGED <<temp_dir, original_temp_dir>>
    /\ ExUnchangedOthers

\* lines 182-193: the metadata arrived; save and redirect temp_dir, then
\* await _download_and_convert
GetInfoOk(c) ==
    /\ ex_pc[c] = "get_video_info"
    /\ original_temp_dir' = [original_temp_dir EXCEPT ![c] = temp_dir]
    /\ temp_dir' = IF Truthy(ex_output_dir[c]) THEN ex_output_dir[c] ELSE temp_dir
    /\ ex_pc' = [ex_pc EXCEPT ![c] = "download_and_convert"]
    /\ UNCHANGED <<ex_output_dir, attempt>>
    /\ ExUnchangedOthers

\* lines 182-184, 235-243: no metadata, or _get_video_info raised
GetInfoFails(c) ==
    /\ ex_pc[c] = "get_video_info"
    /\ ex_pc' = [ex_pc EXCEPT ![c] = AfterFailure(c)]
    /\ UNCHANGED <<temp_dir, ex_output_dir, original_temp_dir, attempt>>
    /\ ExUnchangedOthers

\* lines 193-204: the file was produced; await _set_media_tags
DownloadOk(c) ==
    /\ ex_pc[c] = "download_and_convert"
    /\ ex_pc' = [ex_pc EXCEPT ![c] = "set_media_tags"]
    /\ UNCHANGED <<temp_dir, ex_output_dir, original_temp_dir, attempt>>
    /\ ExUnchangedOthers

\* lines 193-202, 230-243: the download raised or the file is missing or
\* empty; the finally block runs, then the except clause
DownloadFails(c) ==
    /\ ex_pc[c] = "download_and_convert"
    /\ temp_dir' = Restored(c)
    /\ ex_pc' = [ex_pc EXCEPT ![c] = AfterFailure(c)]
    /\ UNCHANGED <<ex_output_dir, original_temp_dir, attempt>>
    /\ ExUnchangedOthers

\* lines 204-228: tags set and file verified; without output_dir await
\* cleanup_old_files, with it return through the finally block
SetMediaTagsOk(c) ==
    /\ ex_pc[c] = "set_media_tags"
    /\ IF Truthy(ex_output_dir[c])
       THEN /\ temp_dir' = Restored(c)
            /\ ex_pc' = [ex_pc EXCEPT ![c] = "returned"]
       ELSE /\ ex_pc' = [ex_pc EXCEPT ![c] = "cleanup_old_files"]
            /\ UNCHANGED temp_dir
    /\ UNCHANGED <<ex_output_dir, original_temp_dir, attempt>>
    /\ ExUnchangedOthers

\* lines 208-212, 230-243: the file is not a valid MP3
VerifyFails(c) ==
    /\ ex_pc[c] = "set_media_tags"
    /\ temp_dir' = Restored(c)
    /\ ex_pc' = [ex_pc EXCEPT ![c] = AfterFailure(c)]
    /\ UNCHANGED <<ex_output_dir, original_temp_dir, attempt>>
    /\ ExUnchangedOthers

\* lines 224-233: cleanup_old_files returned; return through the finally
CleanupOldFilesDone(c) ==
    /\ ex_pc[c] = "cleanup_old_files"
    /\ temp_dir' = Restored(c)
    /\ ex_pc' = [ex_pc EXCEPT ![c] = "returned"]
    /\ UNCHANGED <<ex_output_dir, original_temp_dir, attempt>>
    /\ ExUnchangedOthers

\* lines 239, 180: the sleep is over, next attempt
RetrySleepDone(c) ==
    /\ ex_pc[c] = "sleep"
    /\ attempt' = [attempt EXCEPT ![c] = attempt[c] + 1]
    /\ ex_pc' = [ex_pc EXCEPT ![c] = "get_video_info"]
    /\ UNCHANGED <<temp_dir, ex_output_dir, original_temp_dir>>
    /\ ExUnchangedOthers

ExNext ==
    \E c \in ExtractCalls :
        \/ ExtractCall(c)
        \/ GetInfoOk(c)
        \/ GetInfoFails(c)
        \/ DownloadOk(c)
        \/ DownloadFails(c)
        \/ SetMediaTagsOk(c)
        \/ VerifyFails(c)
        \/ CleanupOldFilesDone(c)
        \/ RetrySleepDone(c)

SpecExtract == ExInit /\ [][ExNext]_vars


(***************************************************************************)
(* Claims.                                                                 *)
(***************************************************************************)
NoAdjacentEqual(q) == \A k \in 1..(Len(q) - 1) : q[k] # q[k + 1]
AllDistinct(q) == \A a, b \in 1..Len(q) : a # b => q[a] # q[b]
CountOccurrences(p, t) == Cardinality({k \in 1..Len(t) : MatchesAt(p, t, k)})
NonEmpty(q) == SelectSeq(q, LAMBDA x : x # <<>>)

\* the trimmed, non-empty sentences of t under a formatter's delimiters
SentencesOf(t, delims) ==
    LET pieces == ReSplit(t, delims, <<>>)
    IN  NonEmpty([k \in 1..Len(pieces) |-> Strip(pieces[k])])

\* extract_transcript has returned its dict to the route handler
Returned == pc = "returned" \/ (pc = "done" /\ response.status = 200)

\* the rank of a key in the order manual_ja > auto_ja > manual_en > auto_en
C1_Rank(k) ==
    CASE k = manual_ja -> 1
      [] k = auto_ja -> 2
      [] k = manual_en -> 3
      [] k = auto_en -> 4

C1_BestKey(keys) == CHOOSE k \in keys : \A other \in keys : C1_Rank(k) <= C1_Rank(other)

\* C1: once _parse_subtitle_file has selected, the selected file is the one
\* stored under the highest-priority key of manual_ja > auto_ja > manual_en >
\* auto_en present in the dict, whatever order the keys were inserted in.
C1_SelectsHighestPriority ==
    ("select" \in calls /\ DictKeys(subtitle_files) # {}) =>
        /\ DictKeys(subtitle_files) \subseteq {manual_ja, auto_ja, manual_en, auto_en}
        /\ selected_file = DictGet(subtitle_files, C1_BestKey(DictKeys(subtitle_files)))

\* C1 witness: auto_en was inserted first, three keys are present, and the
\* manual Japanese file was selected.
C1_Witness ==
    /\ "select" \in calls
    /\ Len(subtitle_files) >= 3
    /\ subtitle_files[1].key = auto_en
    /\ selected_file = File_ja

\* no file of the listing is a *.vtt file carrying one of the four markers
C4_NoRecognisedFile(listing) ==
    \A n \in 1..Len(listing) :
        ~ /\ EndsWith(listing[n], <<".", "v", "t", "t">>)
          /\ \E marker \in {<<".", "j", "a", ".", "v", "t", "t">>,
                            <<".", "e", "n", ".", "v", "t", "t">>,
                            <<".", "j", "a", ".", "a", "u", "t", "o", ".", "v", "t", "t">>,
                            <<".", "e", "n", ".", "a", "u", "t", "o", ".", "v", "t", "t">>} :
                Contains(marker, listing[n])

\* C4: when the download left no recognised subtitle file, the request fails
\* with the FileNotFoundError of _find_subtitle_files, and variant selection,
\* file reading and cue parsing are never performed; no result is returned.
C4_EmptySetFailsBeforeParse ==
    ("_find_subtitle_files" \in calls /\ C4_NoRecognisedFile(temp_dir_files)) =>
        /\ error = "FileNotFoundError"
        /\ pc \in {"except", "done"}
        /\ calls \cap {"select", "read", "_extract_text_from_vtt"} = {}
        /\ ~Returned
        /\ pc = "done" => response.status = 404

\* C4 witness: the directory held only an unrecognised *.vtt file and a
\* non-vtt file, and the request has been answered.
C4_Witness ==
    /\ pc = "done"
    /\ "_find_subtitle_files" \in calls
    /\ temp_dir_files = <<File_fr, File_srt>>
    /\ error = "FileNotFoundError"

\* C5 (as claimed): when the file that was read parses to zero segments the
\* request fails like NoSubtitleAvailable (FileNotFoundError), and
\* extract_transcript never returns a document whose body is empty.
C5_EmptyTranscriptFails ==
    /\ ("_extract_text_from_vtt" \in calls
          /\ RunScan(ScanStart(content)).text_segments = <<>>) =>
             /\ pc \in {"except", "done"}
             /\ error = "FileNotFoundError"
    /\ Returned => result.formatted_transcript.content # <<>>

\* the key under which the selected file is stored
C8_SelectedKey ==
    CHOOSE k \in DictKeys(subtitle_files) : DictGet(subtitle_files, k) = selected_file

\* C8: with only auto_en available, selection succeeds with kind "auto" and
\* the English label; for every answered request the reported subtitle_type
\* is "manual" or "auto" and, with the language label, agrees with the kind
\* and language of the selected key.
C8_KindAndLabelAgree ==
    /\ ("select" \in calls /\ DictKeys(subtitle_files) = {auto_en}) =>
          /\ selected_file = File_en_auto
          /\ selected_type = Str_auto
          /\ selected_lang = Label_en
          /\ error # "none" => "read" \in calls
    /\ (pc = "done" /\ response.status = 200) =>
          /\ response.subtitle_type \in {Str_manual, Str_auto}
          /\ response.subtitle_type = Str_manual
                <=> C8_SelectedKey \in {manual_ja, manual_en}
          /\ response.language \in {Label_ja, Label_en}
          /\ response.language = Label_ja
                <=> C8_SelectedKey \in {manual_ja, auto_ja}
          /\ response.transcript.language = response.language
          /\ response.transcript.subtitle_type = TypeLabel_auto
                <=> response.subtitle_type = Str_auto

\* C8 witness: a request answered 200 whose only variant was auto_en.
C8_Witness ==
    /\ pc = "done"
    /\ response.status = 200
    /\ DictKeys(subtitle_files) = {auto_en}
    /\ response.subtitle_type = Str_auto
    /\ response.language = Label_en


\* C2 (as claimed): the body returned by _clean_and_format_text holds no two
\* consecutive whitespace-delimited tokens that are equal.
C2_NoRepeatedToken ==
    text_pc = "clean_and_format" => NoAdjacentEqual(SplitWords(formatted, <<>>))

\* the delimiters of the formatter that _clean_and_format_text chose for t
C3_DelimsFor(t) ==
    IF is_japanese_text(DedupedText(t)) THEN JapaneseDelims ELSE EnglishDelims

\* C3 (as claimed): no two sentences of the body returned by
\* _clean_and_format_text, split by the delimiters of the detected script and
\* trimmed, are textually identical.
C3_NoRepeatedSentence ==
    text_pc = "clean_and_format" =>
        AllDistinct(SentencesOf(formatted, C3_DelimsFor(text)))

\* the paragraphs of a formatted body (the input holds no line break)
C6_Paragraphs(out) == NonEmpty(ReSplit(out, {"\n"}, <<>>))

\* the sentences of each paragraph, one after the other
C6_ParagraphSentences(out, delims) ==
    Flatten([p \in 1..Len(C6_Paragraphs(out)) |->
                SentencesOf(C6_Paragraphs(out)[p], delims)])

C6_NoEmptyParagraph(out, delims) ==
    \A p \in 1..Len(C6_Paragraphs(out)) :
        SentencesOf(C6_Paragraphs(out)[p], delims) # <<>>

\* each sentence with its first letter upper-cased
C6_Capitalized(sentences) ==
    [k \in 1..Len(sentences) |->
        [j \in 1..Len(sentences[k]) |->
            IF j = 1 THEN Upper(sentences[k][j]) ELSE sentences[k][j]]]

\* C6 (amended): for both formatters no paragraph is empty and the
\* paragraphs' sentences, concatenated in order, are the non-empty input
\* sentences in their original order: exactly for the native-script
\* formatter, each with its first letter upper-cased for the Latin one.
C6_ParagraphsCoverInput ==
    /\ text_pc = "japanese" =>
          /\ C6_NoEmptyParagraph(formatted, JapaneseDelims)
          /\ C6_ParagraphSentences(formatted, JapaneseDelims)
                = SentencesOf(text, JapaneseDelims)
    /\ text_pc = "english" =>
          /\ C6_NoEmptyParagraph(formatted, EnglishDelims)
          /\ C6_ParagraphSentences(formatted, EnglishDelims)
                = C6_Capitalized(SentencesOf(text, EnglishDelims))

\* C6 (as claimed): the paragraphs' sentences reproduce the input sentence
\* sequence exactly, for both formatters.
C6_ReproducesInputExactly ==
    /\ text_pc = "japanese" =>
          C6_ParagraphSentences(formatted, JapaneseDelims)
             = SentencesOf(text, JapaneseDelims)
    /\ text_pc = "english" =>
          C6_ParagraphSentences(formatted, EnglishDelims)
             = SentencesOf(text, EnglishDelims)

\* C6 witness: the Latin formatter closed a paragraph of four sentences and
\* flushed a fifth sentence as a second paragraph.
C6_Witness ==
    /\ text_pc = "english"
    /\ Len(C6_Paragraphs(formatted)) = 2
    /\ Len(SentencesOf(text, EnglishDelims)) = 5

Str_DarkSentence ==
    <<"i", "t", " ", "w", "a", "s", " ", "a", " ", "d", "a", "r", "k", " ",
      "a", "n", "d", " ", "s", "t", "o", "r", "m", "y", " ", "n", "i", "g",
      "h", "t">>
Str_DarkSentenceCapitalized ==
    <<"I", "t", " ", "w", "a", "s", " ", "a", " ", "d", "a", "r", "k", " ",
      "a", "n", "d", " ", "s", "t", "o", "r", "m", "y", " ", "n", "i", "g",
      "h", "t">>
Str_dark == <<"d", "a", "r", "k">>

C7_TokenCount(word, t) ==
    Cardinality({k \in 1..Len(SplitWords(t, <<>>)) : SplitWords(t, <<>>)[k] = word})

\* C7 (amended): for the two cues "it was a dark" / "dark and stormy night"
\* the body is the single sentence "It was a dark and stormy night." (first
\* letter upper-cased by the Latin formatter), and the token "dark" occurs
\* once.
C7_ScenarioA ==
    (lines = Vtt_ScenarioA /\ scan_pc = "done") =>
        /\ body = Str_DarkSentenceCapitalized \o <<".">>
        /\ CountOccurrences(Str_DarkSentenceCapitalized, body) = 1
        /\ C7_TokenCount(Str_dark, body) = 1

\* C7 (as claimed): the body contains the string "it was a dark and stormy
\* night" exactly once and the token "dark" is not repeated.
C7_ContainsLowercaseSentence ==
    (lines = Vtt_ScenarioA /\ scan_pc = "done") =>
        /\ CountOccurrences(Str_DarkSentence, body) = 1
        /\ C7_TokenCount(Str_dark, body) = 1

\* C7 witness: the scan of scenario A has finished with two segments.
C7_Witness ==
    /\ lines = Vtt_ScenarioA
    /\ scan_pc = "done"
    /\ text_segments = <<Line_Dark1, Line_Dark2>>

\* C9 (as claimed): cleaning the result of _clean_vtt_text again returns it
\* unchanged.
C9_CleanIdempotent ==
    clean_pc = "recleaned" => recleaned = cleaned


\* position of the unit character u in a rendered duration, 0 when absent
C10_UnitAt(r, u) ==
    IF \E k \in 1..Len(r) : r[k] = u THEN CHOOSE k \in 1..Len(r) : r[k] = u ELSE 0

\* the value of a decimal digit string
RECURSIVE C10_Value(_)
C10_Value(ds) ==
    IF ds = <<>> THEN 0
    ELSE 10 * C10_Value(SubSeq(ds, 1, Len(ds) - 1))
         + (CHOOSE d \in 0..9 : DigitChar(d) = ds[Len(ds)])

\* a decimal number that is written without zero-padding
C10_Unpadded(ds) ==
    /\ ds # <<>>
    /\ \A k \in 1..Len(ds) : ds[k] \in Digit
    /\ Len(ds) > 1 => ds[1] # "0"

\* the digit strings before the hour, minute and second units of r
C10_HourDigits(r) == SubSeq(r, 1, C10_UnitAt(r, "JI") - 1)
C10_MinuteDigits(r) == SubSeq(r, C10_UnitAt(r, "KAN") + 1, C10_UnitAt(r, "FUN") - 1)
C10_SecondDigits(r) == SubSeq(r, C10_UnitAt(r, "FUN") + 1, C10_UnitAt(r, "BYO") - 1)

\* C10: _format_duration renders seconds only below 60, minutes and seconds
\* below 3600, hours, minutes and seconds otherwise; no component is
\* zero-padded, minutes and seconds are below 60, and
\* hours*3600 + minutes*60 + seconds is the input.
C10_DurationFormat ==
    dur_pc = "done" =>
        LET hasHours == C10_UnitAt(rendered, "KAN") # 0
            hasMinutes == C10_UnitAt(rendered, "FUN") # 0
            hours == IF hasHours THEN C10_Value(C10_HourDigits(rendered)) ELSE 0
            minutes == IF hasMinutes THEN C10_Value(C10_MinuteDigits(rendered)) ELSE 0
            secs == C10_Value(C10_SecondDigits(rendered))
        IN  /\ C10_UnitAt(rendered, "BYO") = Len(rendered)
            /\ hasHours <=> seconds >= 3600
            /\ hasMinutes <=> seconds >= 60
            /\ hasHours => /\ C10_UnitAt(rendered, "KAN") = C10_UnitAt(rendered, "JI") + 1
                           /\ C10_Unpadded(C10_HourDigits(rendered))
            /\ hasMinutes => C10_Unpadded(C10_MinuteDigits(rendered))
            /\ C10_Unpadded(C10_SecondDigits(rendered))
            /\ minutes < 60
            /\ secs < 60
            /\ hours * 3600 + minutes * 60 + secs = seconds
            /\ seconds = 0 => rendered = <<"0", "BYO">>
            /\ seconds = 65 => rendered = <<"1", "FUN", "5", "BYO">>
            /\ seconds = 3661 => rendered = <<"1", "JI", "KAN", "1", "FUN", "1", "BYO">>

\* C10 witness: 7325 seconds were rendered as 2 hours 2 minutes 5 seconds.
C10_Witness ==
    /\ dur_pc = "done"
    /\ seconds = 7325
    /\ rendered = <<"2", "JI", "KAN", "2", "FUN", "5", "BYO">>

\* the hiragana, katakana and ideograph characters among the model's letters
C11_NativeLetters ==
    {"DE", "SU", "MA", "SHI", "TA", "DA", "TSU", "AA", "RU", "KA", "ON", "GAKU",
     "BYO", "FUN", "JI", "KAN"}

RECURSIVE C11_NativeCount(_)
C11_NativeCount(t) ==
    IF t = <<>> THEN 0
    ELSE (IF Head(t) \in C11_NativeLetters THEN 1 ELSE 0) + C11_NativeCount(Tail(t))

LineAt(ls, k) == Strip(ls[k + 1])

\* the 0-based indexes, ascending from k, of the lines matching the timing
\* pattern
RECURSIVE TimingIndexesFrom(_, _)
TimingIndexesFrom(ls, k) ==
    IF k >= Len(ls) THEN <<>>
    ELSE (IF IsTimingLine(LineAt(ls, k)) THEN <<k>> ELSE <<>>)
         \o TimingIndexesFrom(ls, k + 1)

\* the cleaned, non-empty text lines from index k up to the first blank
\* line, timing line or end of file
RECURSIVE C12_CueLines(_, _)
C12_CueLines(ls, k) ==
    IF k >= Len(ls) \/ LineAt(ls, k) = <<>> \/ IsTimingLine(LineAt(ls, k))
    THEN <<>>
    ELSE NonEmpty(<<clean_vtt_text(LineAt(ls, k))>>) \o C12_CueLines(ls, k + 1)

\* one segment per timing line, in file order, empty ones dropped
C12_ExpectedSegments(ls) ==
    LET starts == TimingIndexesFrom(ls, 0)
    IN  NonEmpty([n \in 1..Len(starts) |->
                    Join(C12_CueLines(ls, starts[n] + 1), <<" ">>)])

StrictlyAscending(q) == \A n \in 1..(Len(q) - 1) : q[n] < q[n + 1]

\* C12: no line matching the timing pattern is ever collected as text; the
\* outer loop opens a cue at strictly ascending indexes (no timing line
\* twice); and when the scan ends a cue was opened at every timing line, blank
\* separator or not, and the segments are, in file order, the text that
\* follows each timing line up to the next blank line or timing line.
C12_EveryTimingLineStartsItsCue ==
    scan_pc # "idle" =>
        /\ \A n \in 1..Len(collected) : ~IsTimingLine(LineAt(lines, collected[n]))
        /\ StrictlyAscending(cue_starts)
        /\ scan_pc \in {"join", "done"} =>
              /\ cue_starts = TimingIndexesFrom(lines, 0)
              /\ text_segments = C12_ExpectedSegments(lines)

\* C12 witness: four timing lines with no blank line anywhere, one directly
\* after another timing line; four cues were opened and three segments
\* produced in file order.
C12_Witness ==
    /\ lines = Vtt_NoBlankSeparators
    /\ scan_pc = "done"
    /\ cue_starts = <<1, 3, 4, 6>>
    /\ collected = <<2, 5, 7>>
    /\ text_segments = <<Line_Text, Line_Text2, Line_Dark1>>

\* some blank line lies before index k with no timing line after it up to k
C13_AfterBlankLine(ls, k) ==
    \E b \in 0..(k - 1) :
        /\ LineAt(ls, b) = <<>>
        /\ \A t \in (b + 1)..k : ~IsTimingLine(LineAt(ls, t))

\* the cues opened so far that have had a line collected: a collected index
\* after the cue's timing line with no other timing line between
C13_CuesWithText ==
    {c \in 1..Len(cue_starts) :
        \E n \in 1..Len(collected) :
            /\ cue_starts[c] < collected[n]
            /\ \A t \in (cue_starts[c] + 1)..collected[n] :
                    ~IsTimingLine(LineAt(lines, t))}

\* C13: a line that lies after a blank line and before the next timing line
\* is never collected, nor is a blank line or a line that is empty after
\* cleaning; every collected text and every segment is a non-empty string; and
\* when the scan ends there is exactly one segment per cue that collected
\* text, so a cue whose lines are all empty after cleaning adds none.
C13_BlankEndsCueAndSegmentsNonEmpty ==
    scan_pc # "idle" =>
        /\ \A n \in 1..Len(collected) :
              /\ ~C13_AfterBlankLine(lines, collected[n])
              /\ LineAt(lines, collected[n]) # <<>>
              /\ clean_vtt_text(LineAt(lines, collected[n])) # <<>>
        /\ \A n \in 1..Len(text_lines) : text_lines[n] # <<>>
        /\ \A n \in 1..Len(text_segments) : text_segments[n] # <<>>
        /\ scan_pc \in {"join", "done"} =>
              Len(text_segments) = Cardinality(C13_CuesWithText)

\* C13 witness: the first cue's text was cut off by a whitespace-only line
\* (the two lines after it were not collected), the second cue held only a
\* tag, and the scan ended with the single segment "a".
C13_Witness ==
    /\ lines = Vtt_AfterBlank
    /\ scan_pc = "done"
    /\ cue_starts = <<0, 5>>
    /\ collected = <<1>>
    /\ text_segments = <<Line_Text>>

\* a timing line (it holds the arrow) that does not match the pattern
C14_IsMalformedTiming(line) ==
    Contains(<<"-", "-", ">">>, line) /\ ~IsTimingLine(line)

\* index k lies in a malformed block: a malformed timing line at or before
\* k, and between it and k no blank line and no well-formed timing line
C14_InMalformedBlock(ls, k) ==
    \E m \in 0..k :
        /\ C14_IsMalformedTiming(LineAt(ls, m))
        /\ \A t \in (m + 1)..k :
              LineAt(ls, t) # <<>> /\ ~IsTimingLine(LineAt(ls, t))

\* C14 (as claimed): no line of a block whose timing line does not match the
\* pattern is collected into a segment, and when the scan ends a cue was
\* opened at every well-formed timing line before and after it.
C14_MalformedBlockSkipped ==
    scan_pc # "idle" =>
        /\ \A n \in 1..Len(collected) : ~C14_InMalformedBlock(lines, collected[n])
        /\ scan_pc \in {"join", "done"} => cue_starts = TimingIndexesFrom(lines, 0)

\* the sentence ends with one of the six inflection markers
C15_EndsWithMarker(sentence) ==
    \E marker \in {<<"DE", "SU">>, <<"MA", "SU">>, <<"DE", "SHI", "TA">>,
                    <<"MA", "SHI", "TA">>, <<"DA", "TSU", "TA">>,
                    <<"DE", "AA", "RU">>} : EndsWith(sentence, marker)

\* the groups the claim describes: closed at 3 sentences or after a sentence
\* that ends with a marker, the trailing partial group flushed
RECURSIVE C15_Groups(_, _)
C15_Groups(sentences, group) ==
    IF sentences = <<>> THEN (IF group # <<>> THEN <<group>> ELSE <<>>)
    ELSE IF Len(group) + 1 >= 3 \/ C15_EndsWithMarker(Head(sentences))
         THEN <<Append(group, Head(sentences))>> \o C15_Groups(Tail(sentences), <<>>)
         ELSE C15_Groups(Tail(sentences), Append(group, Head(sentences)))

\* C15 (as claimed): the paragraphs of _format_japanese_text are the groups
\* closed exactly when the group has 3 sentences or the sentence ends with an
\* inflection marker; a marker elsewhere in the sentence closes nothing.
C15_ClosedOnlyAtSentenceEnd ==
    text_pc = "japanese" =>
        LET groups == C15_Groups(SentencesOf(text, JapaneseDelims), <<>>)
        IN  /\ Len(C6_Paragraphs(formatted)) = Len(groups)
            /\ \A g \in 1..Len(groups) :
                  /\ Len(groups[g]) <= 3
                  /\ SentencesOf(C6_Paragraphs(formatted)[g], JapaneseDelims)
                        = groups[g]

\* the index never leaves 0..len(lines)+1, no line is read at or beyond
\* len(lines), inside an outer iteration the index is never below the one the
\* iteration began with, and at every later test of the outer loop it is
\* strictly greater
C16_IndexAdvances ==
    scan_pc # "idle" =>
        /\ i >= 0
        /\ i <= Len(lines) + 1
        /\ max_read < Len(lines)
        /\ i >= iter_start
        /\ (scan_pc \in {"outer", "join", "done"} /\ max_read >= 0) => i > iter_start

\* a measure of the work left: three per line still ahead of the outer loop,
\* the inner loop and the cue end placed between two outer tests
C16_Rank ==
    CASE scan_pc = "outer" -> 3 * (Len(lines) + 2 - i)
      [] scan_pc = "inner" -> 3 * (Len(lines) + 2 - i) + 2
      [] scan_pc = "cue_end" -> 3 * (Len(lines) + 1 - i) + 1
      [] scan_pc = "join" -> 1
      [] OTHER -> 0

\* C16: the cue scan terminates on every input: the line index is strictly
\* greater at the end of each outer iteration than at its start, step-back
\* included, never negative, no line is read at an index >= len(lines), and
\* every step of the function, the step back too, strictly lowers a
\* non-negative measure, so no run of it is infinite.
C16_ScanTerminates ==
    [][/\ C16_IndexAdvances
       /\ C16_IndexAdvances'
       /\ C16_Rank' < C16_Rank
       /\ C16_Rank' >= 0]_vars

\* C16 witness: the inner loop has stepped back onto the index the outer
\* iteration began with (a timing line directly after a timing line) in a
\* file with no blank line.
C16_Witness ==
    /\ lines = Vtt_NoBlankSeparators
    /\ scan_pc = "cue_end"
    /\ iter_start = 3
    /\ i = 3
    /\ max_read = 4

\* C17 (as claimed): once a request has been answered, with 200, 400, 404 or
\* 500, the removal of the service's temporary directory has been scheduled.
C17_CleanupAlwaysScheduled ==
    pc = "done" => cleanup_scheduled

\* every extract call that was made has returned or raised
C18_AllFinished ==
    /\ \E c \in ExtractCalls : ex_pc[c] # "idle"
    /\ \A c \in ExtractCalls : ex_pc[c] \in {"idle", "returned", "raised"}

\* C18 (as claimed): once all concurrent extract calls on the instance have
\* finished, self.temp_dir is the value it had before the first call.
C18_TempDirRestored ==
    C18_AllFinished => temp_dir = Dir_temp

\* the download ran and left no recognised subtitle file, or variant
\* selection ran and no key of the priority order was present
C19_CaptionsUnavailable ==
    \/ /\ "_find_subtitle_files" \in calls
       /\ C4_NoRecognisedFile(temp_dir_files)
    \/ /\ "select" \in calls
       /\ DictKeys(subtitle_files) \cap {manual_ja, auto_ja, manual_en, auto_en} = {}

\* C19 (as claimed): the handler answers 404 only when captions are
\* unavailable; a failure to launch the tool, to fetch or decode the metadata
\* or to read the selected file is answered with another status.
C19_NotFoundOnlyWithoutCaptions ==
    (pc = "done" /\ response.status = 404) => C19_CaptionsUnavailable

=============================================================================
